---- MODULE Spec2Model ----
(***************************************************************************)
(* Model of the DLO pipeline launcher (src/main.py): the override cache    *)
(* (load_cached_config / save_cached_config), the configuration editor     *)
(* (ConfigEditorDialog: _build_config_ui, reset_to_defaults,               *)
(* get_overrides, accept) and the dataset dialog's save.                   *)
(*                                                                         *)
(* Python values are tagged records, one record shape per Python type.     *)
(* A Python string is a sequence of lexemes (a bare word, a number         *)
(* literal, a bracket, a comma ...), which is the granularity at which     *)
(* str(), int(), float() and yaml.safe_load() are modelled.  A dict key    *)
(* is a string written as the sequence of its dot-free pieces, so the key  *)
(* "a.b" is <<"a", "b">> and the key "a" is <<"a">>: ".".join and          *)
(* str.split(".") are then computed, not assumed to be inverse.            *)
(***************************************************************************)
EXTENDS Integers, Sequences, FiniteSets, TLC

-----------------------------------------------------------------------------
(* Python values *)

NoneV == [kind |-> "none"]
BoolV(b) == [kind |-> "bool", b |-> b]
\* an int is hi * 2^32 + n with n a 32-bit signed number: hi = 0 iff it fits
\* the C int of QSpinBox
WideV(hi, n) == [kind |-> "int", n |-> n, hi |-> hi]
IntV(n) == WideV(0, n)
\* a float counted in units of 1e-7
FloatV(u) == [kind |-> "float", u |-> u]
StrV(s) == [kind |-> "str", s |-> s]
ListV(items) == [kind |-> "list", items |-> items]
\* a dict keeps insertion order: a sequence of entries with distinct keys
DictV(ents) == [kind |-> "dict", ents |-> ents]
Ent(k, v) == [k |-> k, v |-> v]
EmptyDict == DictV(<<>>)

\* QDoubleSpinBox.setDecimals(6)
Decimals == 6

\* one more digit than the spin box keeps, so that its rounding shows
FloatUnit == 10 ^ (Decimals + 1)

IsDict(v) == v.kind = "dict"

\* key in d
Has(d, k) == \E i \in 1..Len(d.ents) : d.ents[i].k = k

\* d[k]
Get(d, k) == d.ents[CHOOSE i \in 1..Len(d.ents) : d.ents[i].k = k].v

\* d[k] = v: an existing key keeps its position, a new key goes last
Put(d, k, v) ==
    IF Has(d, k)
    THEN DictV([i \in 1..Len(d.ents) |->
                  IF d.ents[i].k = k THEN Ent(k, v) ELSE d.ents[i]])
    ELSE DictV(Append(d.ents, Ent(k, v)))

\* the number a bool, an int that fits 32 bits or a float stands for, in
\* units of 1e-7 (True == 1 == 1.0 in Python)
IsNum(v) == v.kind \in {"bool", "float"} \/ (v.kind = "int" /\ v.hi = 0)

Num(v) ==
    CASE v.kind = "bool" -> IF v.b THEN FloatUnit ELSE 0
      [] v.kind = "int" -> v.n * FloatUnit
      [] v.kind = "float" -> v.u

RECURSIVE PyEq(_, _)
\* x == y in Python: numbers by value across bool/int/float, lists
\* element-wise, dicts regardless of order
PyEq(x, y) ==
    IF IsNum(x) /\ IsNum(y) THEN Num(x) = Num(y)
    ELSE IF x.kind # y.kind THEN FALSE
    ELSE CASE x.kind = "list" ->
                /\ Len(x.items) = Len(y.items)
                /\ \A i \in 1..Len(x.items) : PyEq(x.items[i], y.items[i])
           [] x.kind = "dict" ->
                /\ Len(x.ents) = Len(y.ents)
                /\ \A i \in 1..Len(x.ents) :
                      /\ Has(y, x.ents[i].k)
                      /\ PyEq(x.ents[i].v, Get(y, x.ents[i].k))
           [] OTHER -> x = y

-----------------------------------------------------------------------------
(* Python strings as lexeme sequences *)

LB == [lx |-> "lb"]
RB == [lx |-> "rb"]
Comma == [lx |-> "comma"]
Word(w) == [lx |-> "word", w |-> w]
IntLit(hi, n) == [lx |-> "int", n |-> n, hi |-> hi]
FloatLit(u) == [lx |-> "float", u |-> u]
PyBool(b) == [lx |-> "pybool", b |-> b]
\* a single-quoted string, as repr() writes a str inside a list or a dict
Quoted(t) == [lx |-> "sq", t |-> t]
\* the pieces of the repr of a dict; a key is written quoted
LBrace == [lx |-> "lbrace"]
RBrace == [lx |-> "rbrace"]
Colon == [lx |-> "colon"]
QuotedKey(k) == [lx |-> "sqkey", k |-> k]

RECURSIVE PyRepr(_)
RECURSIVE ReprItems(_, _)
RECURSIVE ReprEnts(_, _)
\* repr(v), which is str(v) except that a str is quoted
PyRepr(v) ==
    CASE v.kind = "none" -> <<Word("None")>>
      [] v.kind = "bool" -> <<PyBool(v.b)>>
      [] v.kind = "int" -> <<IntLit(v.hi, v.n)>>
      [] v.kind = "float" -> <<FloatLit(v.u)>>
      [] v.kind = "str" -> <<Quoted(v.s)>>
      [] v.kind = "list" -> <<LB>> \o ReprItems(v.items, 1) \o <<RB>>
      [] v.kind = "dict" -> <<LBrace>> \o ReprEnts(v.ents, 1) \o <<RBrace>>

ReprEnts(ents, i) ==
    IF i > Len(ents) THEN <<>>
    ELSE <<QuotedKey(ents[i].k), Colon>> \o PyRepr(ents[i].v)
         \o (IF i < Len(ents) THEN <<Comma>> ELSE <<>>)
         \o ReprEnts(ents, i + 1)

ReprItems(items, i) ==
    IF i > Len(items) THEN <<>>
    ELSE PyRepr(items[i])
         \o (IF i < Len(items) THEN <<Comma>> ELSE <<>>)
         \o ReprItems(items, i + 1)

\* str(v)
PyStr(v) == IF v.kind = "str" THEN v.s ELSE PyRepr(v)

Ok(v) == [ok |-> TRUE, v |-> v]
Raise == [ok |-> FALSE]

\* bool(v)
PyBoolOf(v) ==
    CASE v.kind = "none" -> FALSE
      [] v.kind = "bool" -> v.b
      [] v.kind = "int" -> ~(v.hi = 0 /\ v.n = 0)
      [] v.kind = "float" -> v.u # 0
      [] v.kind = "str" -> v.s # <<>>
      [] v.kind = "list" -> v.items # <<>>
      [] v.kind = "dict" -> v.ents # <<>>

\* toward zero
Trunc(u, d) == IF u >= 0 THEN u \div d ELSE -((-u) \div d)

\* int(v): ValueError for a str that is no integer literal, TypeError for
\* a list, a dict or None
PyInt(v) ==
    CASE v.kind = "bool" -> Ok(IntV(IF v.b THEN 1 ELSE 0))
      [] v.kind = "int" -> Ok(v)
      [] v.kind = "float" -> Ok(IntV(Trunc(v.u, FloatUnit)))
      [] v.kind = "str" ->
           IF Len(v.s) = 1 /\ v.s[1].lx = "int"
           THEN Ok(WideV(v.s[1].hi, v.s[1].n)) ELSE Raise
      [] OTHER -> Raise

\* float(v), for the numbers whose float the units can hold
PyFloat(v) ==
    CASE v.kind = "bool" -> Ok(FloatV(Num(v)))
      [] v.kind = "int" /\ v.hi = 0 -> Ok(FloatV(Num(v)))
      [] v.kind = "float" -> Ok(v)
      [] v.kind = "str" ->
           IF Len(v.s) = 1 /\ v.s[1].lx = "float" THEN Ok(FloatV(v.s[1].u))
           ELSE IF Len(v.s) = 1 /\ v.s[1].lx = "int" /\ v.s[1].hi = 0
           THEN Ok(FloatV(v.s[1].n * FloatUnit))
           ELSE Raise
      [] v.kind \in {"list", "dict", "none"} -> Raise

-----------------------------------------------------------------------------
(* yaml.safe_load of a flow sequence *)

\* the value of a scalar lexeme under the YAML 1.1 resolver
ScalarOf(x) ==
    CASE x.lx = "int" -> WideV(x.hi, x.n)
      [] x.lx = "float" -> FloatV(x.u)
      [] x.lx = "pybool" -> BoolV(x.b)
      [] x.lx = "word" -> StrV(<<x>>)
      [] x.lx = "sq" -> StrV(x.t)

IsScalarLex(x) == x.lx \in {"int", "float", "pybool", "word", "sq"}

Node(v, i) == [ok |-> TRUE, v |-> v, i |-> i]

RECURSIVE ParseNode(_, _)
RECURSIVE ParseRest(_, _, _, _)
\* the node starting at lexeme i: a scalar or a nested flow sequence (flow
\* mappings are not modelled: no text the model parses holds a brace)
ParseNode(t, i) ==
    IF i > Len(t) THEN Raise
    ELSE CASE t[i].lx = "lb" -> ParseRest(t, i + 1, <<>>, TRUE)
           [] IsScalarLex(t[i]) -> Node(ScalarOf(t[i]), i + 1)
           [] t[i].lx \in {"rb", "comma"} -> Raise

\* the rest of a flow sequence after "[": entries separated by commas, a
\* trailing comma allowed, an empty entry not
ParseRest(t, i, acc, wantEntry) ==
    IF i > Len(t) THEN Raise
    ELSE IF t[i].lx = "rb" THEN Node(ListV(acc), i + 1)
    ELSE IF wantEntry
    THEN LET r == ParseNode(t, i)
         IN  IF r.ok THEN ParseRest(t, r.i, Append(acc, r.v), FALSE) ELSE Raise
    ELSE IF t[i].lx = "comma" THEN ParseRest(t, i + 1, acc, TRUE)
    ELSE Raise

\* yaml.safe_load(text): the single document, an error if anything follows
yaml_safe_load(t) ==
    LET r == ParseNode(t, 1)
    IN  IF r.ok /\ r.i = Len(t) + 1 THEN Ok(r.v) ELSE Raise

-----------------------------------------------------------------------------
(* Qt widgets, each held as the Python value its getter returns *)

SpinMin == -2147483647 - 1
SpinMax == 2147483647

\* QSpinBox.setValue(v) after setRange(SpinMin, SpinMax).  An int that does
\* not fit the C int of the binding either raises OverflowError or is
\* clamped to the range: mode names which the binding does.
SpinSetValue(v, mode) ==
    IF v.hi = 0 THEN Ok(v)
    ELSE IF mode = "raise" THEN Raise
    ELSE Ok(IntV(IF v.hi > 0 THEN SpinMax ELSE SpinMin))

\* half away from zero, to a multiple of d
RoundTo(u, d) ==
    IF u >= 0 THEN ((u + d \div 2) \div d) * d
    ELSE -(((-u + d \div 2) \div d) * d)

\* QDoubleSpinBox.setValue(v) after setDecimals(Decimals): the value is
\* rounded to Decimals digits (the range of +-1e10 is beyond every float
\* of this model)
DoubleSpinSetValue(v) == FloatV(RoundTo(v.u, FloatUnit \div (10 ^ Decimals)))

-----------------------------------------------------------------------------
(* ConfigEditorDialog *)

RECURSIVE Join(_)
\* ".".join(path): the pieces of every key, in order
Join(path) == IF path = <<>> THEN <<>> ELSE Head(path) \o Join(Tail(path))

\* path_str.split("."): one key per dot-free piece
Split(path_str) == [i \in 1..Len(path_str) |-> <<path_str[i]>>]

Reserved == {<<"defaults">>, <<"_self_">>}

RECURSIVE get_nested_value(_, _)
\* _get_nested_value(d, path): None as soon as the walk meets a non-dict
\* or a missing key
get_nested_value(d, path) ==
    IF path = <<>> THEN d
    ELSE IF ~IsDict(d) \/ ~Has(d, Head(path)) THEN NoneV
    ELSE get_nested_value(Get(d, Head(path)), Tail(path))

RECURSIVE set_nested_value(_, _, _)
\* _set_nested_value(d, path, value): missing groups are created; a
\* non-dict met on the way makes the `in` test or the item assignment
\* raise TypeError
set_nested_value(d, path, value) ==
    IF ~IsDict(d) THEN Raise
    ELSE IF Len(path) = 1 THEN Ok(Put(d, path[1], value))
    ELSE LET sub == IF Has(d, Head(path)) THEN Get(d, Head(path)) ELSE EmptyDict
             r == set_nested_value(sub, Tail(path), value)
         IN  IF r.ok THEN Ok(Put(d, Head(path), r.v)) ELSE Raise

Field(path_str, field_type, widget, default) ==
    [path_str |-> path_str, field_type |-> field_type, widget |-> widget,
     default |-> default]

\* self.fields[path_str] = field: a dict keyed by path_str
PutField(fields, f) ==
    IF \E i \in 1..Len(fields) : fields[i].path_str = f.path_str
    THEN [i \in 1..Len(fields) |->
            IF fields[i].path_str = f.path_str THEN f ELSE fields[i]]
    ELSE Append(fields, f)

\* the list branch: a line edit showing str() of the cached or base list
BuildList(path_str, v, cached) ==
    Ok(Field(path_str, "list", StrV(PyStr(IF cached # NoneV THEN cached ELSE v)), v))

\* the bool branch: a check box
BuildBool(path_str, v, cached) ==
    Ok(Field(path_str, "bool",
             BoolV(IF cached # NoneV THEN PyBoolOf(cached) ELSE v.b), v))

\* the numeric branch: a QDoubleSpinBox for a float base value, else a
\* QSpinBox, set to float(cached) or int(cached) or to the base value
BuildNumeric(path_str, v, cached, mode) ==
    IF v.kind = "float"
    THEN LET c == IF cached # NoneV THEN PyFloat(cached) ELSE Ok(v)
         IN  IF c.ok THEN Ok(Field(path_str, "float", DoubleSpinSetValue(c.v), v))
             ELSE Raise
    ELSE LET c == IF cached # NoneV THEN PyInt(cached) ELSE PyInt(v)
             w == IF c.ok THEN SpinSetValue(c.v, mode) ELSE Raise
         IN  IF w.ok THEN Ok(Field(path_str, "int", w.v, v)) ELSE Raise

\* the str branch: a line edit
BuildStr(path_str, v, cached) ==
    Ok(Field(path_str, "str", StrV(IF cached # NoneV THEN PyStr(cached) ELSE v.s), v))

\* the isinstance chain with the numeric test ahead of the bool test, which
\* takes a bool for an int
BuildLeafNumericFirst(path_str, v, cached, mode) ==
    CASE v.kind = "list" -> BuildList(path_str, v, cached)
      [] v.kind \in {"bool", "int", "float"} -> BuildNumeric(path_str, v, cached, mode)
      [] v.kind = "str" -> BuildStr(path_str, v, cached)

\* the field of a leaf and its widget, or the exception its construction
\* raises; v is the base value, cached the result of _get_nested_value
BuildLeaf(path_str, v, cached, mode) ==
    CASE v.kind = "list" -> BuildList(path_str, v, cached)
      [] v.kind = "bool" -> BuildBool(path_str, v, cached)
      [] v.kind \in {"int", "float"} -> BuildNumeric(path_str, v, cached, mode)
      [] v.kind = "str" -> BuildStr(path_str, v, cached)

RECURSIVE build_config_ui(_, _, _, _, _)
\* _build_config_ui(config, overrides, path) over the entries of config,
\* first to last, given the fields built so far (acc); the result is the
\* fields, or the exception that ended the construction
build_config_ui(config, overrides, path, mode, acc) ==
    IF ~acc.ok \/ config.ents = <<>> THEN acc
    ELSE LET key == Head(config.ents).k
             value == Head(config.ents).v
             rest == DictV(Tail(config.ents))
             current_path == Append(path, key)
             path_str == Join(current_path)
             here ==
               IF key \in Reserved THEN acc
               ELSE IF value.kind = "dict"
               THEN build_config_ui(value, overrides, current_path, mode, acc)
               ELSE IF value.kind = "none" THEN acc
               ELSE LET f == BuildLeaf(path_str, value,
                                       get_nested_value(overrides, current_path),
                                       mode)
                    IN  IF f.ok THEN Ok(PutField(acc.v, f.v)) ELSE Raise
         IN  build_config_ui(rest, overrides, path, mode, here)

\* what reset_to_defaults sets the widget of a field to
ResetWidget(f, mode) ==
    CASE f.field_type = "bool" -> Ok(f.default)
      [] f.field_type = "int" -> SpinSetValue(f.default, mode)
      [] f.field_type = "float" -> Ok(DoubleSpinSetValue(f.default))
      [] f.field_type \in {"str", "list"} -> Ok(StrV(PyStr(f.default)))

RECURSIVE reset_to_defaults(_, _, _)
\* reset_to_defaults() from the i-th field on: the loop stops at the first
\* setValue that raises, the fields before it are reset already
reset_to_defaults(fields, i, mode) ==
    IF i > Len(fields) THEN Ok(fields)
    ELSE LET w == ResetWidget(fields[i], mode)
         IN  IF w.ok
             THEN reset_to_defaults([fields EXCEPT ![i].widget = w.v], i + 1, mode)
             ELSE [ok |-> FALSE, v |-> fields]

\* the value of a list field: its text parsed as the flow sequence
\* "[text]", the default for an empty text, the text itself when it does
\* not parse
ListFieldValue(f) ==
    IF f.widget.s = <<>> THEN f.default
    ELSE LET r == yaml_safe_load(<<LB>> \o f.widget.s \o <<RB>>)
         IN  IF r.ok THEN r.v ELSE f.widget

\* a check box read by its check state, a number, instead of isChecked()
FieldValueCheckState(f) ==
    IF f.field_type = "list" THEN ListFieldValue(f)
    ELSE IF f.field_type = "bool" THEN IntV(IF f.widget.b THEN 2 ELSE 0)
    ELSE f.widget

\* the value get_overrides reads from the widget of a field
FieldValue(f) ==
    IF f.field_type = "list" THEN ListFieldValue(f) ELSE f.widget

RECURSIVE OverridesFrom(_, _, _)
OverridesFrom(fields, i, acc) ==
    IF ~acc.ok \/ i > Len(fields) THEN acc
    ELSE LET f == fields[i]
             value == FieldValue(f)
         IN  OverridesFrom(fields, i + 1,
                 IF ~PyEq(value, f.default)
                 THEN set_nested_value(acc.v, Split(f.path_str), value)
                 ELSE acc)

\* get_overrides(): the nested dict of the fields that differ from their
\* default, or the TypeError of _set_nested_value
get_overrides(fields) == OverridesFrom(fields, 1, Ok(EmptyDict))

-----------------------------------------------------------------------------
(* The cache artifact: CONFIG_CACHE_FILE *)

Absent == [st |-> "absent"]
\* a file that json.load rejects
Garbage == [st |-> "garbage"]
\* a file holding the JSON text of top
Json(top) == [st |-> "json", top |-> top]

\* what open(CONFIG_CACHE_FILE, "r") and json.load give: the top-level
\* value, or an exception
ReadCache(file, canRead) ==
    IF file.st = "json" /\ canRead THEN Ok(file.top) ELSE Raise

\* load_cached_config(key): cache.get(key, {}) inside the try, {} when the
\* file is absent or anything raised (a top level without .get included)
load_cached_config(file, canRead, key) ==
    LET r == ReadCache(file, canRead)
    IN  IF file.st # "absent" /\ r.ok /\ IsDict(r.v) /\ Has(r.v, key)
        THEN Get(r.v, key)
        ELSE EmptyDict

\* a save that starts from an empty cache whatever the file holds
save_cached_config_fresh(file, canRead, canWrite, key, config) ==
    [raised |-> FALSE,
     file |-> IF canWrite THEN Json(Put(EmptyDict, key, config)) ELSE file]

\* save_cached_config(key, config): the file after the call, and whether
\* the call raised.  A failed read leaves cache = {}; cache[key] = config
\* is outside every try and raises TypeError on a top level that is no
\* dict; a failed write is printed.
save_cached_config(file, canRead, canWrite, key, config) ==
    LET r == ReadCache(file, canRead)
        cache == IF file.st # "absent" /\ r.ok THEN r.v ELSE EmptyDict
    IN  IF ~IsDict(cache) THEN [raised |-> TRUE, file |-> file]
        ELSE [raised |-> FALSE,
              file |-> IF canWrite THEN Json(Put(cache, key, config)) ELSE file]

-----------------------------------------------------------------------------
(* The cache file as the text that two launchers read and write at once *)

\* the pieces of JSON text besides the braces, colons and commas: a key,
\* and a value that is no mapping, written whole
JsonKey(k) == [lx |-> "jkey", k |-> k]
JsonScalar(v) == [lx |-> "jval", v |-> v]

RECURSIVE json_dump(_)
RECURSIVE JsonMembers(_, _)
\* the text json.dump(cache, f, indent=2) writes
json_dump(v) ==
    IF IsDict(v) THEN <<LBrace>> \o JsonMembers(v.ents, 1) \o <<RBrace>>
    ELSE <<JsonScalar(v)>>

JsonMembers(ents, i) ==
    IF i > Len(ents) THEN <<>>
    ELSE <<JsonKey(ents[i].k), Colon>> \o json_dump(ents[i].v)
         \o (IF i < Len(ents) THEN <<Comma>> ELSE <<>>)
         \o JsonMembers(ents, i + 1)

RECURSIVE JsonValue(_, _)
RECURSIVE JsonObject(_, _, _, _)
\* the JSON value starting at piece i of the text t
JsonValue(t, i) ==
    IF i > Len(t) THEN Raise
    ELSE CASE t[i].lx = "lbrace" -> JsonObject(t, i + 1, <<>>, TRUE)
           [] t[i].lx = "jval" -> Node(t[i].v, i + 1)
           [] OTHER -> Raise

\* the rest of an object after "{": members separated by commas, no
\* trailing comma, a later member replacing an earlier one of the same key
JsonObject(t, i, acc, first) ==
    IF i > Len(t) THEN Raise
    ELSE IF t[i].lx = "rbrace" /\ first
    THEN Node(DictV(acc), i + 1)
    ELSE IF i + 1 <= Len(t) /\ t[i].lx = "jkey" /\ t[i + 1].lx = "colon"
    THEN LET r == JsonValue(t, i + 2)
         IN  IF ~r.ok \/ r.i > Len(t) THEN Raise
             ELSE LET d == Put(DictV(acc), t[i].k, r.v).ents
                  IN  IF t[r.i].lx = "rbrace" THEN Node(DictV(d), r.i + 1)
                      ELSE IF t[r.i].lx = "comma" /\ r.i + 1 <= Len(t)
                              /\ t[r.i + 1].lx = "jkey"
                      THEN JsonObject(t, r.i + 1, d, FALSE)
                      ELSE Raise
    ELSE Raise

\* json.load(f): the single value of the text, an error for an empty text
\* or when anything follows the value ("Extra data")
json_load(t) ==
    LET r == JsonValue(t, 1)
    IN  IF r.ok /\ r.i = Len(t) + 1 THEN Ok(r.v) ELSE Raise

NoFile == [exists |-> FALSE, bytes |-> <<>>]
FileWith(top) == [exists |-> TRUE, bytes |-> json_dump(top)]

\* lines 112-120 of save_cached_config on the text of the file: cache is
\* {} when the file is absent or json.load raises, then cache[key] = config
save_read(d, key, config) ==
    LET r == IF d.exists THEN json_load(d.bytes) ELSE Raise
        cache == IF r.ok THEN r.v ELSE EmptyDict
    IN  IF IsDict(cache) THEN Ok(Put(cache, key, config)) ELSE Raise

\* open(CONFIG_CACHE_FILE, "w"): the file exists and is empty
save_open(d) == [exists |-> TRUE, bytes |-> <<>>]

\* json.dump and the close of the file: the text is written from offset 0
\* of the writer's own descriptor, over what the file holds by then; the
\* bytes beyond the text stay
save_dump(d, cache) ==
    LET text == json_dump(cache)
    IN  [exists |-> TRUE,
         bytes |-> text \o SubSeq(d.bytes, Len(text) + 1, Len(d.bytes))]

-----------------------------------------------------------------------------
(* MainWindow *)

RECURSIVE build_hydra_overrides(_, _)
\* _build_hydra_overrides(overrides, prefix): one "full_key=value" per leaf,
\* held as the pair of the dotted key and str(value)
build_hydra_overrides(overrides, prefix) ==
    IF overrides.ents = <<>> THEN <<>>
    ELSE LET key == Head(overrides.ents).k
             value == Head(overrides.ents).v
             full_key == prefix \o key
         IN  (IF IsDict(value) THEN build_hydra_overrides(value, full_key)
              ELSE <<[key |-> full_key, value |-> PyStr(value)]>>)
             \o build_hydra_overrides(DictV(Tail(overrides.ents)), prefix)

\* the emulators _find_terminal probes, in its order
Terminals ==
    <<"gnome-terminal", "konsole", "xfce4-terminal", "xterm", "alacritty",
      "kitty", "terminator">>

\* the command template of an emulator
TerminalCmd(name) ==
    CASE name = "gnome-terminal" -> <<name, "--", "bash", "-c">>
      [] name = "kitty" -> <<name, "bash", "-c">>
      [] OTHER -> <<name, "-e", "bash", "-c">>

\* _find_terminal(): the first emulator of the list that shutil.which
\* finds among the installed programs, or (None, None)
find_terminal(installed) ==
    IF \E i \in 1..Len(Terminals) : Terminals[i] \in installed
    THEN LET i == CHOOSE i \in 1..Len(Terminals) :
                      /\ Terminals[i] \in installed
                      /\ \A j \in 1..(i - 1) : Terminals[j] \notin installed
         IN  [found |-> TRUE, name |-> Terminals[i], cmd |-> TerminalCmd(Terminals[i])]
    ELSE [found |-> FALSE]

vars_to_clean == {"LD_LIBRARY_PATH", "LD_PRELOAD"}

\* a copy of the environment that drops LD_LIBRARY_PATH only
clean_env_library_path_only(environ) ==
    [n \in DOMAIN environ \ {"LD_LIBRARY_PATH"} |-> environ[n]]

\* env = os.environ.copy() without the variables of vars_to_clean
clean_env(environ) ==
    [n \in DOMAIN environ \ vars_to_clean |-> environ[n]]

\* the statements of the bash command line, in order: the optional
\* sources, conda activate, the script with its arguments, the final read
bash_commands(host, kind, extra_args) ==
    (IF host.conda_sh THEN <<<<"source", "conda.sh">>>> ELSE <<>>)
    \o << <<"conda activate",
            IF "CONDA_DEFAULT_ENV" \in DOMAIN host.environ
            THEN host.environ["CONDA_DEFAULT_ENV"] ELSE "pyel_agx">> >>
    \o (IF host.agx_setup_env THEN <<<<"source", "setup_env.bash">>>> ELSE <<>>)
    \o << <<"export PYTHONPATH">>, <<"cd">>, <<"echo", kind>>,
          <<"python -u", kind, extra_args>>, <<"read">> >>

\* _run_script_in_new_terminal on a host: nothing is spawned when the
\* script is missing or _find_terminal found no emulator; otherwise one
\* subprocess.Popen(cmd, env=env, start_new_session=True), which may fail
run_script_in_new_terminal(host, popen_ok, kind, extra_args) ==
    IF ~host.script_exists THEN [result |-> "missing_script"]
    ELSE LET t == find_terminal(host.installed)
         IN  IF ~t.found THEN [result |-> "no_terminal"]
             ELSE IF ~popen_ok THEN [result |-> "popen_failed"]
             ELSE [result |-> "spawned",
                   cmd |-> t.cmd,
                   full_command |-> bash_commands(host, kind, extra_args),
                   env |-> clean_env(host.environ)]

-----------------------------------------------------------------------------
(* The documents and inputs the model draws from *)

K(a) == <<a>>
Txt(w) == StrV(<<Word(w)>>)
OneTwoThree == ListV(<<IntV(1), IntV(2), IntV(3)>>)
OneTwoFour == ListV(<<IntV(1), IntV(2), IntV(4)>>)

\* the base of the documented example
DocExample ==
    DictV(<<Ent(K("a"), DictV(<<Ent(K("b"), IntV(1)), Ent(K("c"), Txt("x"))>>))>>)

DocKinds ==
    DictV(<<Ent(K("flag"), BoolV(TRUE)), Ent(K("lr"), FloatV(FloatUnit \div 2)),
            Ent(K("xs"), OneTwoThree)>>)

\* reserved keys at the top and inside groups, as a leaf and as a group
DocReserved ==
    DictV(<<Ent(K("defaults"), ListV(<<Txt("base")>>)),
            Ent(K("a"), DictV(<<Ent(K("_self_"), IntV(1)),
                                Ent(K("b"), BoolV(TRUE)),
                                Ent(K("defaults"), DictV(<<Ent(K("c"), IntV(1))>>))>>)),
            Ent(K("_self_"), DictV(<<Ent(K("b"), IntV(2))>>))>>)

\* a key holding a dot beside a group: "a.b" and a > b
DocDotted ==
    DictV(<<Ent(<<"a", "b">>, IntV(1)),
            Ent(K("a"), DictV(<<Ent(K("b"), Txt("x"))>>))>>)

\* a key holding a dot beside a leaf that is its first piece, in both orders
DocDotAfter == DictV(<<Ent(K("a"), Txt("x")), Ent(<<"a", "b">>, IntV(1))>>)
DocDotBefore == DictV(<<Ent(<<"a", "b">>, IntV(1)), Ent(K("a"), Txt("x"))>>)

\* an int beyond 32 bits and a float finer than the spin box's digits
DocWide == DictV(<<Ent(K("n"), WideV(1, 0)), Ent(K("eps"), FloatV(1))>>)

\* a leaf written null
DocNull == DictV(<<Ent(K("ckpt"), NoneV), Ent(K("a"), IntV(1))>>)

\* what yaml.safe_load gives for the config file (EmptyDict also stands for
\* a missing file)
BaseDocs ==
    {EmptyDict, DocExample, DocKinds, DocReserved, DocDotted, DocDotAfter,
     DocDotBefore, DocWide, DocNull}

EditorKeys == {K("training_config"), K("prediction_config"), K("dataset_config")}
LaunchKey == K("dataset_launch")

LaunchParams(n, e, total_samples, all_cpus, a) ==
    DictV(<<Ent(K("n"), IntV(n)), Ent(K("e"), IntV(e)),
            Ent(K("total_samples"), IntV(total_samples)),
            Ent(K("all_cpus"), BoolV(all_cpus)), Ent(K("a"), BoolV(a))>>)

\* override documents a cache file may hold under a scope
OvExample == DictV(<<Ent(K("a"), DictV(<<Ent(K("b"), IntV(5))>>))>>)
OvFalsy ==
    DictV(<<Ent(K("a"), DictV(<<Ent(K("b"), IntV(0)), Ent(K("c"), StrV(<<>>))>>)),
            Ent(K("flag"), BoolV(FALSE)), Ent(K("lr"), FloatV(0))>>)
OvList ==
    DictV(<<Ent(K("xs"), OneTwoFour),
            Ent(K("a"), DictV(<<Ent(K("b"), IntV(1))>>))>>)
OvOtherKind ==
    DictV(<<Ent(K("a"), DictV(<<Ent(K("b"), Txt("abc")), Ent(K("c"), IntV(7))>>)),
            Ent(K("flag"), Txt("no")), Ent(K("lr"), IntV(2))>>)
OvScalarGroup ==
    DictV(<<Ent(K("a"), IntV(5)), Ent(<<"a", "b">>, IntV(7)),
            Ent(K("zz"), IntV(1))>>)
OvNull ==
    DictV(<<Ent(K("a"), DictV(<<Ent(K("b"), NoneV)>>)), Ent(K("n"), IntV(3)),
            Ent(K("eps"), FloatV(26))>>)

\* the top-level mappings of a well-formed cache file in a run of the
\* cache store
CacheTops ==
    {EmptyDict,
     DictV(<<Ent(K("training_config"), DictV(<<Ent(K("flag"), BoolV(FALSE))>>))>>),
     DictV(<<Ent(K("dataset_config"), OvExample),
             Ent(LaunchKey, LaunchParams(4, 1, 0, FALSE, TRUE))>>),
     DictV(<<Ent(LaunchKey, ListV(<<IntV(1)>>))>>)}

\* the states of the cache file: absent, not JSON, JSON that is no mapping,
\* a mapping
CacheFiles ==
    {Absent, Garbage, Json(ListV(<<>>)), Json(Txt("x"))} \cup {Json(t) : t \in CacheTops}

\* what the user may set a widget to, by field type
Edits(field_type) ==
    CASE field_type = "bool" -> {BoolV(TRUE), BoolV(FALSE)}
      [] field_type = "int" -> {IntV(1), IntV(5)}
      [] field_type = "float" -> {FloatV(FloatUnit \div 2), FloatV(0)}
      [] field_type = "str" -> {Txt("x"), Txt("y")}
      [] field_type = "list" ->
           {StrV(<<>>),
            StrV(<<IntLit(0, 1), Comma, IntLit(0, 2), Comma, IntLit(0, 4)>>),
            StrV(<<IntLit(0, 1), Comma, IntLit(0, 2), Comma, IntLit(0, 3)>>),
            StrV(<<LB, IntLit(0, 1)>>)}

OverflowModes == {"clamp", "raise"}

\* a base with a single field
DocTiny == DictV(<<Ent(K("flag"), BoolV(TRUE))>>)

\* the config file and the cache file of a run of the editor: every base
\* with no cache and with the cached overrides that meet its paths
Scenarios ==
    ({DocExample} \X {Json(DictV(<<Ent(K("training_config"), o)>>)) :
                        o \in {OvExample, OvFalsy, OvList, OvOtherKind,
                               OvScalarGroup, OvNull, ListV(<<IntV(1)>>)}})
    \cup ({DocKinds} \X {Json(DictV(<<Ent(K("training_config"), o)>>)) :
                           o \in {OvFalsy, OvList, OvOtherKind}})
    \cup ({DocDotted, DocDotAfter, DocDotBefore}
            \X {Json(DictV(<<Ent(K("training_config"), o)>>)) :
                  o \in {OvExample, OvScalarGroup}})
    \cup ({DocWide} \X {Json(DictV(<<Ent(K("training_config"), OvNull)>>))})
    \cup ({DocExample}
            \X {Json(DictV(<<Ent(K("dataset_config"), OvExample),
                             Ent(LaunchKey, LaunchParams(4, 1, 0, FALSE, TRUE))>>))})
    \cup (BaseDocs \X {Absent, Garbage})

\* os.environ with the given variables set beside PATH
Environ(names) ==
    [n \in names \cup {"PATH"} |->
        CASE n = "PATH" -> "/usr/bin"
          [] n = "LD_LIBRARY_PATH" -> "/opt/agx/lib"
          [] n = "LD_PRELOAD" -> "libagx.so"
          [] n = "CONDA_DEFAULT_ENV" -> "dlo"
          [] OTHER -> ""]

\* what _run_script_in_new_terminal finds on the machine
Host(script_exists, installed, names, conda_sh, agx_setup_env) ==
    [script_exists |-> script_exists, installed |-> installed,
     environ |-> Environ(names), conda_sh |-> conda_sh,
     agx_setup_env |-> agx_setup_env]

\* the machine of the runs of the editor and of the cache store
HostDefault == Host(TRUE, {"xterm"}, {"LD_PRELOAD"}, TRUE, FALSE)

\* the machines of the runs of the launcher
Hosts ==
    {Host(se, inst, names, TRUE, FALSE) :
        se \in BOOLEAN,
        inst \in {{}, {"xterm"}, {"kitty", "konsole"}, {"bash", "terminator"}},
        names \in SUBSET {"LD_LIBRARY_PATH", "LD_PRELOAD"}}
    \cup {Host(TRUE, {"gnome-terminal", "xterm"},
               {"LD_LIBRARY_PATH", "LD_PRELOAD", "CONDA_DEFAULT_ENV"}, ca[1], ca[2]) :
            ca \in BOOLEAN \X BOOLEAN}

\* how many dialogs may be accepted in a run of the editor
MaxAccepts == 1

\* how many dialogs may be accepted in a run of the cache store
MaxSaves == 2

\* how many dialogs may be accepted in a run of the launcher
MaxLaunches == 2

\* the launcher processes that save at once
Procs == {"A", "B"}

\* the documents they save
RaceConfigs == {EmptyDict, DictV(<<Ent(K("flag"), BoolV(FALSE))>>), OvExample}

\* the cache file they find
RaceTops ==
    {EmptyDict,
     DictV(<<Ent(K("prediction_config"), DictV(<<Ent(K("flag"), BoolV(FALSE))>>))>>),
     DictV(<<Ent(K("training_config"), OvExample),
             Ent(LaunchKey, LaunchParams(4, 1, 0, FALSE, TRUE))>>)}

-----------------------------------------------------------------------------
(* The launcher as a state machine *)

VARIABLES
    yamlFile,          \* the parsed content of the config file of the editors
    cacheFile,         \* CONFIG_CACHE_FILE
    canRead, canWrite, \* whether open(.., "r") and open(.., "w") succeed
    dlg,               \* "main", "editor", "dataset" or "dataset_editor"
    cache_key,         \* ConfigEditorDialog.cache_key
    cached_overrides,  \* ConfigEditorDialog.cached_overrides
    fields,            \* ConfigEditorDialog.fields
    hist,              \* what last touched the fields: "built", "edited", "reset"
    ds,                \* the widgets of DatasetGeneratorDialog
    last,              \* the last handler run and the exception it ended with
    launch,            \* what the last accepted dialog's launch step did
    expected,          \* per scope, the document of the last save call
    start,             \* the cache file as the run found it
    host,              \* the machine: scripts, emulators, os.environ
    spawns,            \* how many subprocess.Popen calls succeeded
    disk,              \* the text of the cache file under concurrent saves
    proc,              \* per saving process: its step, key, config, cache
    writes,            \* the processes in the order their dumps ended
    budget             \* dialogs that may still be accepted

vars ==
    <<yamlFile, cacheFile, canRead, canWrite, dlg, cache_key, cached_overrides,
      fields, hist, ds, last, launch, expected, start, host, spawns, disk,
      proc, writes, budget>>

env == <<yamlFile, canRead, canWrite, start, host, disk, proc, writes>>
editor == <<cache_key, cached_overrides, fields, hist>>

Scopes == EditorKeys \cup {LaunchKey}

Done(op) == [op |-> op, raised |-> "none"]
Failed(op, where) == [op |-> op, raised |-> where]

NoLaunch == [result |-> "none"]

\* the widgets of DatasetGeneratorDialog after construction
DsDefault == [n |-> 1, e |-> 1, total_samples |-> 0, all_cpus |-> FALSE, a |-> FALSE]

Clamp(x, lo, hi) == IF x < lo THEN lo ELSE IF x > hi THEN hi ELSE x

\* cached.get(name, default) for the launch parameters
GetOr(cached, name, default) ==
    IF Has(cached, K(name)) THEN Get(cached, K(name)) ELSE default

\* DatasetGeneratorDialog.__init__: the widgets after the cached launch
\* parameters are applied; a truthy cached value without .get raises
DsLoad(cached) ==
    IF ~PyBoolOf(cached) THEN Ok(DsDefault)
    ELSE IF ~IsDict(cached) THEN Raise
    ELSE Ok([n |-> Clamp(GetOr(cached, "n", IntV(1)).n, 1, 128),
             e |-> Clamp(GetOr(cached, "e", IntV(1)).n, 1, 10000),
             total_samples |->
                 Clamp(GetOr(cached, "total_samples", IntV(0)).n, 0, 1000000),
             all_cpus |-> GetOr(cached, "all_cpus", BoolV(FALSE)).b,
             a |-> GetOr(cached, "a", BoolV(FALSE)).b])

\* DatasetGeneratorDialog.get_parameters, as the argument list that
\* run_dataset_generator makes of it
DsArgs(w) ==
    (IF w.all_cpus THEN <<[key |-> K("--all_cpus"), value |-> <<>>]>>
     ELSE <<[key |-> K("-n"), value |-> <<IntLit(0, w.n)>>]>>)
    \o (IF w.total_samples > 0
        THEN <<[key |-> K("--total_samples"), value |-> <<IntLit(0, w.total_samples)>>]>>
        ELSE <<[key |-> K("-e"), value |-> <<IntLit(0, w.e)>>]>>)
    \o (IF w.a THEN <<[key |-> K("-a"), value |-> <<>>]>> ELSE <<>>)

\* the entry of the scope in a well-formed file, {} otherwise
InitialEntry(file, k) ==
    IF file.st = "json" /\ IsDict(file.top) /\ Has(file.top, k)
    THEN Get(file.top, k) ELSE EmptyDict

\* one launcher alone: each save runs its read, open and dump in one
\* handler, and cacheFile holds what the file then says
NoRace ==
    /\ disk = NoFile
    /\ proc = <<>>
    /\ writes = <<>>

\* no dialog is open
Idle ==
    /\ dlg = "main"
    /\ cache_key = K("")
    /\ cached_overrides = EmptyDict
    /\ fields = <<>>
    /\ hist = "built"
    /\ ds = DsDefault

\* a run of the editor: the cache file is readable and writable
Init ==
    /\ \E sc \in Scenarios : yamlFile = sc[1] /\ cacheFile = sc[2]
    /\ canRead = TRUE
    /\ canWrite = TRUE
    /\ Idle
    /\ last = Done("start")
    /\ launch = NoLaunch
    /\ expected = [k \in Scopes |-> InitialEntry(cacheFile, k)]
    /\ start = cacheFile
    /\ host = HostDefault
    /\ spawns = 0
    /\ NoRace
    /\ budget = MaxAccepts

\* a run of the cache store: every state of the cache file, one small base
InitStore ==
    /\ yamlFile = DocTiny
    /\ cacheFile \in CacheFiles
    /\ canRead \in BOOLEAN
    /\ canWrite \in BOOLEAN
    /\ Idle
    /\ last = Done("start")
    /\ launch = NoLaunch
    /\ expected = [k \in Scopes |-> InitialEntry(cacheFile, k)]
    /\ start = cacheFile
    /\ host = HostDefault
    /\ spawns = 0
    /\ NoRace
    /\ budget = MaxSaves

\* a run of the launcher: every machine, one small base, no cache file
InitLaunch ==
    /\ yamlFile = DocTiny
    /\ cacheFile = Absent
    /\ canRead = TRUE
    /\ canWrite = TRUE
    /\ Idle
    /\ last = Done("start")
    /\ launch = NoLaunch
    /\ expected = [k \in Scopes |-> InitialEntry(cacheFile, k)]
    /\ start = cacheFile
    /\ host \in Hosts
    /\ spawns = 0
    /\ NoRace
    /\ budget = MaxLaunches

\* the editor is gone: its object is discarded with the dialog
EditorClosed ==
    /\ cache_key' = K("")
    /\ cached_overrides' = EmptyDict
    /\ fields' = <<>>
    /\ hist' = "built"

\* ConfigEditorDialog.__init__ under the key k, from the main window
\* (run_training, run_prediction) or from the dataset dialog (edit_config)
OpenEditor(k, from, to) ==
    /\ dlg = from
    /\ budget > 0
    /\ \E mode \in OverflowModes :
         LET ov == load_cached_config(cacheFile, canRead, k)
             built == build_config_ui(yamlFile, ov, <<>>, mode, Ok(<<>>))
         IN  IF built.ok
             THEN /\ dlg' = to
                  /\ cache_key' = k
                  /\ cached_overrides' = ov
                  /\ fields' = built.v
                  /\ hist' = "built"
                  /\ last' = Done("open")
             ELSE /\ last' = [op |-> "open", raised |-> "build", key |-> k]
                  /\ UNCHANGED <<dlg, editor>>
    /\ launch' = NoLaunch
    /\ UNCHANGED <<env, spawns, cacheFile, ds, expected, budget>>

run_training == OpenEditor(K("training_config"), "main", "editor")

run_prediction == OpenEditor(K("prediction_config"), "main", "editor")

edit_config == OpenEditor(K("dataset_config"), "dataset", "dataset_editor")

InEditor == dlg \in {"editor", "dataset_editor"}

\* the user sets the widget of one field
EditField ==
    /\ InEditor
    /\ \E i \in 1..Len(fields) : \E w \in Edits(fields[i].field_type) :
         /\ w # fields[i].widget
         /\ fields' = [fields EXCEPT ![i].widget = w]
    /\ hist' = "edited"
    /\ last' = Done("edit")
    /\ UNCHANGED <<env, spawns, cacheFile, dlg, cache_key, cached_overrides, ds, launch,
                   expected, budget>>

\* the "Reset to Defaults" button
ResetToDefaults ==
    /\ InEditor
    /\ \E mode \in OverflowModes :
         LET r == reset_to_defaults(fields, 1, mode)
         IN  /\ fields' = r.v
             /\ hist' = IF r.ok THEN "reset" ELSE "edited"
             /\ last' = IF r.ok THEN Done("reset") ELSE Failed("reset", "reset")
    /\ UNCHANGED <<env, spawns, cacheFile, dlg, cache_key, cached_overrides, ds, launch,
                   expected, budget>>

\* the document of the most recent save call per scope
Saved(k, doc) == [expected EXCEPT ![k] = doc]

\* ConfigEditorDialog.accept, and for an editor of the main window the rest
\* of run_training / run_prediction.  An exception raised in accept leaves
\* the dialog open: super().accept() was not reached.
EditorAccept ==
    /\ InEditor
    /\ budget > 0
    /\ LET ov == get_overrides(fields)
           sv == save_cached_config(cacheFile, canRead, canWrite, cache_key, ov.v)
       IN  IF ~ov.ok
           THEN /\ last' = Failed("accept", "get_overrides")
                /\ UNCHANGED <<cacheFile, dlg, editor, launch, expected, budget>>
           ELSE IF sv.raised
           THEN /\ last' = Failed("accept", "save")
                /\ expected' = Saved(cache_key, ov.v)
                /\ UNCHANGED <<cacheFile, dlg, editor, launch, budget>>
           ELSE /\ last' = Done("accept")
                /\ cacheFile' = sv.file
                /\ expected' = Saved(cache_key, ov.v)
                /\ budget' = budget - 1
                /\ EditorClosed
                /\ IF dlg = "editor"
                   THEN /\ dlg' = "main"
                        /\ \E popen_ok \in BOOLEAN :
                             launch' = run_script_in_new_terminal(
                                           host, popen_ok, cache_key,
                                           build_hydra_overrides(ov.v, <<>>))
                   ELSE /\ dlg' = "dataset"
                        /\ launch' = NoLaunch
    /\ spawns' = IF launch'.result = "spawned" THEN spawns + 1 ELSE spawns
    /\ UNCHANGED <<env, ds>>

\* Cancel in the editor
EditorReject ==
    /\ InEditor
    /\ dlg' = IF dlg = "editor" THEN "main" ELSE "dataset"
    /\ EditorClosed
    /\ last' = Done("reject")
    /\ launch' = NoLaunch
    /\ UNCHANGED <<env, spawns, cacheFile, ds, expected, budget>>

\* run_dataset_generator up to dialog.exec(): DatasetGeneratorDialog.__init__
run_dataset_generator ==
    /\ dlg = "main"
    /\ budget > 0
    /\ LET w == DsLoad(load_cached_config(cacheFile, canRead, LaunchKey))
       IN  IF w.ok
           THEN /\ dlg' = "dataset"
                /\ ds' = w.v
                /\ last' = Done("open")
           ELSE /\ last' = Failed("open", "load")
                /\ UNCHANGED <<dlg, ds>>
    /\ launch' = NoLaunch
    /\ UNCHANGED <<env, spawns, cacheFile, editor, expected, budget>>

\* the user changes a launch parameter
DatasetEdit ==
    /\ dlg = "dataset"
    /\ \/ \E n \in {1, 4} : ds' = [ds EXCEPT !.n = n]
       \/ ds' = [ds EXCEPT !.a = ~ds.a]
    /\ ds' # ds
    /\ last' = Done("edit")
    /\ UNCHANGED <<env, spawns, cacheFile, dlg, editor, launch, expected, budget>>

\* DatasetGeneratorDialog.accept and the rest of run_dataset_generator
DatasetAccept ==
    /\ dlg = "dataset"
    /\ budget > 0
    /\ LET launch_params ==
               LaunchParams(ds.n, ds.e, ds.total_samples, ds.all_cpus, ds.a)
           sv == save_cached_config(cacheFile, canRead, canWrite, LaunchKey,
                                    launch_params)
       IN  /\ expected' = Saved(LaunchKey, launch_params)
           /\ IF sv.raised
              THEN /\ last' = Failed("accept", "save")
                   /\ UNCHANGED <<cacheFile, dlg, ds, launch, budget>>
              ELSE /\ last' = Done("accept")
                   /\ cacheFile' = sv.file
                   /\ budget' = budget - 1
                   /\ dlg' = "main"
                   /\ ds' = DsDefault
                   /\ \E popen_ok \in BOOLEAN :
                        launch' = run_script_in_new_terminal(
                                      host, popen_ok, LaunchKey, DsArgs(ds))
    /\ spawns' = IF launch'.result = "spawned" THEN spawns + 1 ELSE spawns
    /\ UNCHANGED <<env, editor>>

\* Cancel in the dataset dialog
DatasetReject ==
    /\ dlg = "dataset"
    /\ dlg' = "main"
    /\ ds' = DsDefault
    /\ last' = Done("reject")
    /\ launch' = NoLaunch
    /\ UNCHANGED <<env, spawns, cacheFile, editor, expected, budget>>

\* what the dialogs of one launcher hold
launcher ==
    <<yamlFile, canRead, canWrite, start, host, dlg, editor, ds, last, launch,
      expected, spawns, budget>>

\* the text of the file as the state of the cache file
FileOf(d) ==
    IF ~d.exists THEN Absent
    ELSE LET r == json_load(d.bytes) IN IF r.ok THEN Json(r.v) ELSE Garbage

\* two launchers, each about to save one document under one key
InitRace ==
    /\ yamlFile = DocTiny
    /\ disk \in {NoFile} \cup {FileWith(t) : t \in RaceTops}
    /\ cacheFile = FileOf(disk)
    /\ canRead = TRUE
    /\ canWrite = TRUE
    /\ Idle
    /\ last = Done("start")
    /\ launch = NoLaunch
    /\ expected = [k \in Scopes |-> InitialEntry(cacheFile, k)]
    /\ start = cacheFile
    /\ host = HostDefault
    /\ spawns = 0
    /\ proc \in [Procs -> {[pc |-> "read", key |-> k, config |-> c, cache |-> EmptyDict] :
                              k \in EditorKeys, c \in RaceConfigs}]
    /\ writes = <<>>
    /\ budget = 0

\* process p reads the file and sets its entry (lines 112-120)
SaveRead(p) ==
    /\ proc[p].pc = "read"
    /\ LET r == save_read(disk, proc[p].key, proc[p].config)
       IN  proc' = [proc EXCEPT ![p].pc = IF r.ok THEN "open" ELSE "raised",
                                ![p].cache = IF r.ok THEN r.v ELSE @]
    /\ UNCHANGED <<launcher, cacheFile, disk, writes>>

\* process p opens the file for writing (line 123)
SaveOpen(p) ==
    /\ proc[p].pc = "open"
    /\ disk' = save_open(disk)
    /\ cacheFile' = FileOf(disk')
    /\ proc' = [proc EXCEPT ![p].pc = "dump"]
    /\ UNCHANGED <<launcher, writes>>

\* process p dumps its cache and closes the file (lines 124-125)
SaveDump(p) ==
    /\ proc[p].pc = "dump"
    /\ disk' = save_dump(disk, proc[p].cache)
    /\ cacheFile' = FileOf(disk')
    /\ proc' = [proc EXCEPT ![p].pc = "done"]
    /\ writes' = Append(writes, p)
    /\ UNCHANGED launcher

NextRace ==
    \/ \E p \in DOMAIN proc : SaveRead(p)
    \/ \E p \in DOMAIN proc : SaveOpen(p)
    \/ \E p \in DOMAIN proc : SaveDump(p)

Next ==
    \/ run_training
    \/ run_prediction
    \/ edit_config
    \/ EditField
    \/ ResetToDefaults
    \/ EditorAccept
    \/ EditorReject
    \/ run_dataset_generator
    \/ DatasetEdit
    \/ DatasetAccept
    \/ DatasetReject

Spec == Init /\ [][Next]_vars

SpecStore == InitStore /\ [][Next]_vars

SpecLaunch == InitLaunch /\ [][Next]_vars

SpecRace == InitRace /\ [][NextRace]_vars

-----------------------------------------------------------------------------
(* What the claims speak of *)

RECURSIVE Leaves(_, _)
\* the leaves of a base document that have no reserved key at any segment,
\* each with its path (the keys from the root) and its value, in order
Leaves(config, path) ==
    IF config.ents = <<>> THEN <<>>
    ELSE LET key == Head(config.ents).k
             value == Head(config.ents).v
         IN  (IF key \in Reserved THEN <<>>
              ELSE IF IsDict(value) THEN Leaves(value, Append(path, key))
              ELSE <<[path |-> Append(path, key), value |-> value]>>)
             \o Leaves(DictV(Tail(config.ents)), path)

RECURSIVE PresentAt(_, _)
\* the document has a value at every segment of the path
PresentAt(d, path) ==
    \/ path = <<>>
    \/ /\ IsDict(d)
       /\ Has(d, Head(path))
       /\ PresentAt(Get(d, Head(path)), Tail(path))

RECURSIVE At(_, _)
\* the value at a path that is present
At(d, path) == IF path = <<>> THEN d ELSE At(Get(d, Head(path)), Tail(path))

RECURSIVE SetAt(_, _, _)
\* the document with the value at the path, groups created as needed
SetAt(d, path, v) ==
    IF Len(path) = 1 THEN Put(d, path[1], v)
    ELSE Put(d, Head(path),
             SetAt(IF Has(d, Head(path)) /\ IsDict(Get(d, Head(path)))
                   THEN Get(d, Head(path)) ELSE EmptyDict,
                   Tail(path), v))

RECURSIVE Restricted(_, _, _)
\* O restricted to the leaves, from the i-th on, at which it has a value
\* that differs from the leaf's default
Restricted(leaves, O, i) ==
    IF i > Len(leaves) THEN EmptyDict
    ELSE LET rest == Restricted(leaves, O, i + 1)
             p == leaves[i].path
         IN  IF PresentAt(O, p) /\ ~PyEq(At(O, p), leaves[i].value)
             THEN SetAt(rest, p, At(O, p)) ELSE rest

RECURSIVE PlainKeys(_)
\* no key of the document, at any depth, holds a dot
PlainKeys(d) ==
    \A i \in 1..Len(d.ents) :
        /\ Len(d.ents[i].k) = 1
        /\ IsDict(d.ents[i].v) => PlainKeys(d.ents[i].v)

\* a number the spin boxes hold as it is: an int of 32 bits, a float of
\* Decimals digits
Fits(v) ==
    CASE v.kind = "int" -> v.hi = 0
      [] v.kind = "float" -> v.u % (FloatUnit \div (10 ^ Decimals)) = 0
      [] OTHER -> TRUE

LeafKinds == {"bool", "int", "float", "str", "list"}

\* the documents of the data model: keys without dots, leaves of the five
\* kinds, numbers the widgets hold, and cached values of the kind of the
\* base leaf they override
WellFormed(D, O) ==
    /\ PlainKeys(D)
    /\ \A i \in 1..Len(Leaves(D, <<>>)) :
          LET l == Leaves(D, <<>>)[i]
          IN  /\ l.value.kind \in LeafKinds
              /\ Fits(l.value)
              /\ PresentAt(O, l.path) =>
                    /\ At(O, l.path).kind = l.value.kind
                    /\ Fits(At(O, l.path))

\* the fields are as _build_config_ui left them
JustBuilt == InEditor /\ hist = "built"

\* reset_to_defaults ran through and nothing was edited since
JustReset == InEditor /\ hist = "reset"

\* C1: building the fields from the base and the cached overrides and
\* extracting at once, with no edit, gives the cached overrides restricted
\* to the base's leaves whose cached value differs from the default; a
\* list leaf with no cached override contributes nothing.  Stated for the
\* documents of the data model only.
C1_RoundTrip ==
    (JustBuilt /\ WellFormed(yamlFile, cached_overrides)) =>
        LET r == get_overrides(fields)
        IN  /\ r.ok
            /\ PyEq(r.v, Restricted(Leaves(yamlFile, <<>>), cached_overrides, 1))

\* C2: reset_to_defaults followed by get_overrides gives an empty
\* document, for fields of every kind.  Stated for the bases of the data
\* model only.
C2_ResetThenEmpty ==
    (JustReset /\ WellFormed(yamlFile, EmptyDict)) =>
        get_overrides(fields) = Ok(EmptyDict)

\* the run found the cache file absent or holding a mapping of scopes
StartedSound == start = Absent \/ (start.st = "json" /\ IsDict(start.top))

\* every scope loads as the document of its last save call (the entry the
\* run found, if the run made none)
LoadsLastSaved ==
    \A k \in Scopes : load_cached_config(cacheFile, canRead, k) = expected[k]

\* C3 as stated: after any sequence of saves by one launcher, started from
\* an absent or well-formed cache file, every scope loads as the document
\* last saved under it.
C3_LoadsLastSaved == (StartedSound /\ last = Done("accept")) => LoadsLastSaved

\* C3 as amended: the same while the cache file can be read and written; a
\* save then replaces the entry of its scope and leaves the others.
C3_LoadsLastSavedWhenWritable ==
    (StartedSound /\ canRead /\ canWrite) => LoadsLastSaved

\* the nested editor saved dataset_config and the dataset dialog then saved
\* dataset_launch, both changing what the run found, and both load back
C3_Witness ==
    /\ StartedSound /\ canRead /\ canWrite
    /\ last = Done("accept") /\ launch # NoLaunch
    /\ expected[LaunchKey] # InitialEntry(start, LaunchKey)
    /\ expected[K("dataset_config")] # InitialEntry(start, K("dataset_config"))
    /\ load_cached_config(cacheFile, canRead, K("dataset_config"))
         = expected[K("dataset_config")]
    /\ load_cached_config(cacheFile, canRead, LaunchKey) = expected[LaunchKey]

\* C4: save_cached_config never raises to its caller, whatever the state
\* of the cache file, so accept always goes on to close the dialog.
C4_SaveNeverRaises == last.raised # "save"

\* C5: whatever the cache file holds, opening the editor is not blocked by
\* it: when _build_config_ui raised, it raises without the cache as well.
C5_CacheNeverBlocksOpen ==
    (last.op = "open" /\ last.raised = "build") =>
        \A mode \in OverflowModes :
            ~build_config_ui(yamlFile, EmptyDict, <<>>, mode, Ok(<<>>)).ok

-----------------------------------------------------------------------------

FieldAt(path_str) ==
    fields[CHOOSE i \in 1..Len(fields) : fields[i].path_str = path_str]

HasField(path_str) == \E i \in 1..Len(fields) : fields[i].path_str = path_str

\* C6: right after the build, the current value of every field is the
\* cached override at its path when the cached document has a value at
\* every segment of the path, falsy or not, and the default otherwise.
\* Stated for the documents of the data model only.
C6_CurrentIsOverrideIfPresent ==
    (JustBuilt /\ WellFormed(yamlFile, cached_overrides)) =>
        \A i \in 1..Len(Leaves(yamlFile, <<>>)) :
            LET l == Leaves(yamlFile, <<>>)[i]
            IN  /\ HasField(Join(l.path))
                /\ PyEq(FieldValue(FieldAt(Join(l.path))),
                        IF PresentAt(cached_overrides, l.path)
                        THEN At(cached_overrides, l.path) ELSE l.value)

-----------------------------------------------------------------------------

RECURSIVE AllLeaves(_, _)
\* every leaf of a document, with its path
AllLeaves(d, path) ==
    IF d.ents = <<>> THEN <<>>
    ELSE LET key == Head(d.ents).k
             value == Head(d.ents).v
         IN  (IF IsDict(value) THEN AllLeaves(value, Append(path, key))
              ELSE <<[path |-> Append(path, key), value |-> value]>>)
             \o AllLeaves(DictV(Tail(d.ents)), path)

\* v is of the kind of the default d
SameKind(v, d) == v.kind = d.kind

\* the same, but at a list default v is any list or the raw text
SameKindOrRaw(v, d) ==
    IF d.kind = "list" THEN v.kind \in {"list", "str"} ELSE v.kind = d.kind

\* every value of the document is stored at the path of a field whose
\* default it matches in the sense of Match
KindsMatch(doc, Match(_, _)) ==
    \A n \in 1..Len(AllLeaves(doc, <<>>)) :
        LET l == AllLeaves(doc, <<>>)[n]
        IN  \E i \in 1..Len(fields) :
                /\ Split(fields[i].path_str) = l.path
                /\ Match(l.value, fields[i].default)

\* C7 as stated: in every document get_overrides returns, each value has
\* the kind of the base value at its path: bool stays bool, int stays int,
\* float stays float, str stays str, a list stays a list (that its
\* elements stay scalars is not even asked here).
C7_KindPreserved ==
    (InEditor /\ get_overrides(fields).ok) =>
        KindsMatch(get_overrides(fields).v, SameKind)

\* C7 as amended: each value of a bool, int, float or str field has the
\* kind of the base value; the value of a list field is a list, whatever
\* its elements, or the raw text when the text does not parse.
C7_KindPreservedButLists ==
    (InEditor /\ get_overrides(fields).ok) =>
        KindsMatch(get_overrides(fields).v, SameKindOrRaw)

\* a list field holds a text that does not parse, kept as a str, beside a
\* changed field of another type
C7_Witness ==
    /\ InEditor /\ hist = "edited" /\ get_overrides(fields).ok
    /\ \E i, j \in 1..Len(fields) :
          /\ fields[i].field_type = "list"
          /\ FieldValue(fields[i]).kind = "str"
          /\ PresentAt(get_overrides(fields).v, Split(fields[i].path_str))
          /\ fields[j].field_type = "bool"
          /\ PresentAt(get_overrides(fields).v, Split(fields[j].path_str))

RECURSIVE NoEmptyGroup(_)
NoEmptyGroup(d) ==
    \A i \in 1..Len(d.ents) :
        IsDict(d.ents[i].v) => (d.ents[i].v.ents # <<>> /\ NoEmptyGroup(d.ents[i].v))

\* C8: in every edit state get_overrides returns a sparse document: the
\* path of a field is in it exactly when the field's parsed value differs
\* from its default, it holds nothing else, and no group of it is empty.
C8_Sparse ==
    InEditor =>
        LET r == get_overrides(fields)
        IN  /\ r.ok
            /\ \A i \in 1..Len(fields) :
                  PresentAt(r.v, Split(fields[i].path_str))
                      <=> ~PyEq(FieldValue(fields[i]), fields[i].default)
            /\ KindsMatch(r.v, LAMBDA v, d : TRUE)
            /\ NoEmptyGroup(r.v)

\* C9: the fields correspond one to one, in order, to the leaves of the
\* base that have no reserved key at any segment, each keyed by its
\* dot-joined path.
C9_FieldsAreLeaves ==
    InEditor =>
        LET leaves == Leaves(yamlFile, <<>>)
        IN  /\ Len(fields) = Len(leaves)
            /\ \A i \in 1..Len(leaves) :
                  /\ fields[i].path_str = Join(leaves[i].path)
                  /\ fields[i].default = leaves[i].value

\* C10: the type recorded for a field is the kind of the base value it was
\* built from, whatever the cache holds: a bool is "bool", never "int".
C10_KindFromBase ==
    InEditor =>
        \A i \in 1..Len(fields) :
            /\ fields[i].field_type = fields[i].default.kind
            /\ \E n \in 1..Len(Leaves(yamlFile, <<>>)) :
                  /\ Join(Leaves(yamlFile, <<>>)[n].path) = fields[i].path_str
                  /\ Leaves(yamlFile, <<>>)[n].value = fields[i].default

\* fields of a bool and of a float leaf whose cached overrides are of
\* another kind
C10_Witness ==
    /\ JustBuilt
    /\ \E i, j \in 1..Len(fields) :
          /\ fields[i].field_type = "bool"
          /\ get_nested_value(cached_overrides, Split(fields[i].path_str)).kind = "str"
          /\ fields[j].field_type = "float"
          /\ get_nested_value(cached_overrides, Split(fields[j].path_str)).kind = "int"

-----------------------------------------------------------------------------

\* the environment of the launcher without LD_LIBRARY_PATH and LD_PRELOAD
WithoutLoaderVars(environ) ==
    [n \in DOMAIN environ \ {"LD_LIBRARY_PATH", "LD_PRELOAD"} |-> environ[n]]

\* this step spawned a terminal
Spawning == spawns' # spawns

\* C11: a terminal is spawned only by the step that accepts a dialog of the
\* main window, with the script present and an emulator found; a cancelled
\* dialog, a missing script or no emulator spawn nothing; an accepted
\* dialog spawns at most once, and the spawn's environment is the
\* launcher's without LD_LIBRARY_PATH and LD_PRELOAD.
C11_SpawnOnlyOnAccept ==
    [][/\ Spawning =>
            /\ spawns' = spawns + 1
            /\ dlg \in {"editor", "dataset"} /\ dlg' = "main"
            /\ last' = Done("accept")
            /\ host.script_exists
            /\ \E i \in 1..Len(Terminals) :
                  /\ Terminals[i] \in host.installed
                  /\ launch'.cmd[1] = Terminals[i]
            /\ launch'.result = "spawned"
            /\ launch'.env = WithoutLoaderVars(host.environ)
       /\ (last'.op = "reject" \/ ~host.script_exists
             \/ host.installed \cap {Terminals[i] : i \in 1..Len(Terminals)} = {})
              => ~Spawning]_vars

\* two dialogs were accepted and each spawned a terminal, on a machine that
\* sets both loader variables, neither of which the spawn's environment has
C11_Witness ==
    /\ spawns = 2
    /\ last = Done("accept")
    /\ launch.result = "spawned"
    /\ {"LD_LIBRARY_PATH", "LD_PRELOAD"} \subseteq DOMAIN host.environ
    /\ DOMAIN launch.env \cap {"LD_LIBRARY_PATH", "LD_PRELOAD"} = {}
    /\ "PATH" \in DOMAIN launch.env

-----------------------------------------------------------------------------

\* both processes have written
BothSaved == Len(writes) = 2 /\ \A p \in DOMAIN proc : proc[p].pc = "done"

\* the process whose dump ended last
LaterWriter == writes[Len(writes)]

\* C13: when two launchers save at once, whatever the interleaving of their
\* reads and writes, the file ends as exactly what the later writer wrote:
\* no mix of a part of one write with the other.
C13_LaterWriteWins ==
    BothSaved => disk.bytes = json_dump(proc[LaterWriter].cache)

====
